---- MODULE Spec2Model ----
(***************************************************************************)
(* Model of package uuid47 (src/uuid47.go): the SipHash-2-4 PRF, the       *)
(* UUIDv7 <-> UUIDv4-facade transform built on it, and a caller that       *)
(* applies them.                                                           *)
(*                                                                         *)
(* A byte is a number in 0..255.  A uint64 is a sequence of 8 bytes, the   *)
(* least significant byte first (w[1] holds bits 0..7), so every operation *)
(* keeps the 64-bit width of the Go code.  A UUID ([16]byte) and a byte    *)
(* slice are sequences of bytes; Go index i is TLA+ index i+1.             *)
(***************************************************************************)
EXTENDS Integers, Sequences, FiniteSets, TLC

(***************************************************************************)
(* Bit operations on bytes.                                                *)
(***************************************************************************)
RECURSIVE XorBits(_, _)
XorBits(a, b) ==
    IF a = 0 THEN b
    ELSE IF b = 0 THEN a
    ELSE (((a % 2) + (b % 2)) % 2) + 2 * XorBits(a \div 2, b \div 2)

RECURSIVE OrBits(_, _)
OrBits(a, b) ==
    IF a = 0 THEN b
    ELSE IF b = 0 THEN a
    ELSE (IF a % 2 = 1 \/ b % 2 = 1 THEN 1 ELSE 0) + 2 * OrBits(a \div 2, b \div 2)

\* The ^ operator on two nibbles, tabulated once.
XorNibble == [a \in 0..15 |-> [b \in 0..15 |-> XorBits(a, b)]]

\* Go's ^ on two bytes.
Xor8(a, b) == 16 * XorNibble[a \div 16][b \div 16] + XorNibble[a % 16][b % 16]

\* Go's | on two bytes.
Or8(a, b) == OrBits(a, b)

(***************************************************************************)
(* uint64 arithmetic, all of it modulo 2^64.                               *)
(***************************************************************************)
Zero64 == <<0, 0, 0, 0, 0, 0, 0, 0>>

\* A uint64 literal written as in the source, most significant byte first.
U64(b7, b6, b5, b4, b3, b2, b1, b0) == <<b0, b1, b2, b3, b4, b5, b6, b7>>

\* x ^ y
Xor64(x, y) ==
    <<Xor8(x[1], y[1]), Xor8(x[2], y[2]), Xor8(x[3], y[3]), Xor8(x[4], y[4]),
      Xor8(x[5], y[5]), Xor8(x[6], y[6]), Xor8(x[7], y[7]), Xor8(x[8], y[8])>>

\* x | y
Or64(x, y) ==
    <<Or8(x[1], y[1]), Or8(x[2], y[2]), Or8(x[3], y[3]), Or8(x[4], y[4]),
      Or8(x[5], y[5]), Or8(x[6], y[6]), Or8(x[7], y[7]), Or8(x[8], y[8])>>

\* x + y, wrapping: the carry out of byte 8 is dropped.
Add64(x, y) ==
    LET s1 == x[1] + y[1]
        s2 == x[2] + y[2] + s1 \div 256
        s3 == x[3] + y[3] + s2 \div 256
        s4 == x[4] + y[4] + s3 \div 256
        s5 == x[5] + y[5] + s4 \div 256
        s6 == x[6] + y[6] + s5 \div 256
        s7 == x[7] + y[7] + s6 \div 256
        s8 == x[8] + y[8] + s7 \div 256
    IN  <<s1 % 256, s2 % 256, s3 % 256, s4 % 256,
          s5 % 256, s6 % 256, s7 % 256, s8 % 256>>

Pow2(n) == 2 ^ n

\* x << b for 0 <= b < 64: bits shifted past bit 63 are lost.
Shl64(x, b) ==
    LET q == b \div 8
        s == b % 8
        At(j) == IF j >= 1 THEN x[j] ELSE 0
        B(i) == (At(i - q) % Pow2(8 - s)) * Pow2(s) + At(i - q - 1) \div Pow2(8 - s)
    IN  <<B(1), B(2), B(3), B(4), B(5), B(6), B(7), B(8)>>

\* x >> b for 0 <= b < 64.
Shr64(x, b) ==
    LET q == b \div 8
        s == b % 8
        At(j) == IF j <= 8 THEN x[j] ELSE 0
        B(i) == At(i + q) \div Pow2(s) + (At(i + q + 1) % Pow2(s)) * Pow2(8 - s)
    IN  <<B(1), B(2), B(3), B(4), B(5), B(6), B(7), B(8)>>

\* uint64(b) << (8*k): byte b placed at byte position k.
ByteAt(b, k) ==
    LET B(i) == IF i = k + 1 THEN b ELSE 0
    IN  <<B(1), B(2), B(3), B(4), B(5), B(6), B(7), B(8)>>

\* rd64le: the 64-bit little-endian value of p[0..7].
rd64le(p) ==
    Or64(Or64(Or64(ByteAt(p[1], 0), ByteAt(p[2], 1)),
              Or64(ByteAt(p[3], 2), ByteAt(p[4], 3))),
         Or64(Or64(ByteAt(p[5], 4), ByteAt(p[6], 5)),
              Or64(ByteAt(p[7], 6), ByteAt(p[8], 7))))

\* rotl64: (x << b) | (x >> (64 - b))
rotl64(x, b) == Or64(Shl64(x, b), Shr64(x, 64 - b))

\* uint64(n) for a Go int 0 <= n < 2^31 (a length, a small literal).
U64FromInt(n) ==
    <<n % 256, (n \div 256) % 256, (n \div 65536) % 256, n \div 16777216, 0, 0, 0, 0>>

\* x & 0x0000FFFFFFFFFFFF
Low48(x) == <<x[1], x[2], x[3], x[4], x[5], x[6], 0, 0>>

(***************************************************************************)
(* siphash24: SipHash-2-4.  The state is <<v0, v1, v2, v3>>.               *)
(***************************************************************************)
\* The initialisation constants.
SipC0 == U64(115, 111, 109, 101, 112, 115, 101, 117)    \* 0x736f6d6570736575
SipC1 == U64(100, 111, 114, 97, 110, 100, 111, 109)     \* 0x646f72616e646f6d
SipC2 == U64(108, 121, 103, 101, 110, 101, 114, 97)     \* 0x6c7967656e657261
SipC3 == U64(116, 101, 100, 98, 121, 116, 101, 115)     \* 0x7465646279746573

\* Mutant of SipInit: v0 and v2 take k1, v1 and v3 take k0.
SipInitSwappedKeys(k0, k1) ==
    <<Xor64(SipC0, k1), Xor64(SipC1, k0), Xor64(SipC2, k1), Xor64(SipC3, k0)>>

\* Mutant of SipInit: the key not mixed into the state.
SipInitNoKey(k0, k1) == <<SipC0, SipC1, SipC2, SipC3>>

SipInit(k0, k1) ==
    <<Xor64(SipC0, k0), Xor64(SipC1, k1), Xor64(SipC2, k0), Xor64(SipC3, k1)>>

\* One mixing round, in five groups of statements.  Each group reads the
\* state its predecessor left and writes every word at most once.
\* v0 += v1; v2 += v3; v1 = rotl64(v1, 13); v3 = rotl64(v3, 16)
SipRoundA(v) == <<Add64(v[1], v[2]), rotl64(v[2], 13), Add64(v[3], v[4]), rotl64(v[4], 16)>>

\* v1 ^= v0; v3 ^= v2
SipRoundB(v) == <<v[1], Xor64(v[2], v[1]), v[3], Xor64(v[4], v[3])>>

\* v0 = rotl64(v0, 32); v2 += v1
SipRoundC(v) == <<rotl64(v[1], 32), v[2], Add64(v[3], v[2]), v[4]>>

\* Mutant of SipRoundD: the two rotation amounts exchanged.
SipRoundDSwapped(v) == <<Add64(v[1], v[4]), rotl64(v[2], 21), v[3], rotl64(v[4], 17)>>

\* v0 += v3; v1 = rotl64(v1, 17); v3 = rotl64(v3, 21)
SipRoundD(v) == <<Add64(v[1], v[4]), rotl64(v[2], 17), v[3], rotl64(v[4], 21)>>

\* v1 ^= v2; v3 ^= v0; v2 = rotl64(v2, 32)
SipRoundE(v) == <<v[1], Xor64(v[2], v[3]), rotl64(v[3], 32), Xor64(v[4], v[1])>>

SipRound(v) == SipRoundE(SipRoundD(SipRoundC(SipRoundB(SipRoundA(v)))))

\* TRUE of every sequence.  As the condition of an IF it makes TLC compute v
\* there and then, as the Go loops finish one iteration before the next,
\* instead of carrying v unevaluated into the next iteration.
Computed(v) == Len(v) >= 0

\* for range n { round }
RECURSIVE SipRounds(_, _)
SipRounds(n, v) ==
    IF n = 0 THEN v
    ELSE IF Computed(v) THEN SipRounds(n - 1, SipRound(v)) ELSE v

\* v0 ^= m, after the rounds
SipXorV0(w, m) == <<Xor64(w[1], m), w[2], w[3], w[4]>>

\* v3 ^= m; 2 rounds; v0 ^= m
SipAbsorb(v, m) ==
    SipXorV0(SipRounds(2, <<v[1], v[2], v[3], Xor64(v[4], m)>>), m)

\* Mutant of SipEnd: end := inlen, not rounded down to a multiple of 8.
SipEndNotRounded(inlen) == inlen

\* end := inlen &^ 7
SipEnd(inlen) == inlen - (inlen % 8)

\* The loop over the full 8-byte blocks, from offset i.
RECURSIVE SipBlocks(_, _, _, _)
SipBlocks(v, in, i, end) ==
    IF i < end /\ Computed(v)
    THEN SipBlocks(SipAbsorb(v, rd64le(SubSeq(in, i + 1, Len(in)))), in, i + 8, end)
    ELSE v

\* The switch on inlen & 7, entered at case n and falling through to case 1.
RECURSIVE SipTail(_, _, _)
SipTail(in, end, n) ==
    IF n = 0 THEN Zero64
    ELSE Or64(ByteAt(in[end + (n - 1) + 1], n - 1), SipTail(in, end, n - 1))

\* The indices of in that a call with len(in) = inlen reads.
SipReads(inlen) ==
    LET end == SipEnd(inlen)
    IN  {i + j : i \in {b \in 0..(end - 1) : b % 8 = 0}, j \in 0..7}
        \cup {end + (n - 1) : n \in 1..(inlen % 8)}

\* The outcome of an index out of range.
Panic == <<"panic">>

\* v0 ^ v1 ^ v2 ^ v3
SipXorAll(w) == Xor64(Xor64(Xor64(w[1], w[2]), w[3]), w[4])

\* v2 ^= 0xff; 4 rounds; return v0 ^ v1 ^ v2 ^ v3
SipFinish(v) ==
    IF Computed(v)
    THEN SipXorAll(SipRounds(4, <<v[1], v[2], Xor64(v[3], ByteAt(255, 0)), v[4]>>))
    ELSE v

\* b := uint64(inlen) << 56; b |= t
SipLastBlock(in, inlen, end) ==
    Or64(Shl64(U64FromInt(inlen), 56), SipTail(in, end, inlen % 8))

siphash24(in, k0, k1) ==
    IF \E i \in SipReads(Len(in)) : i < 0 \/ i >= Len(in)
    THEN Panic
    ELSE SipFinish(SipAbsorb(SipBlocks(SipInit(k0, k1), in, 0, SipEnd(Len(in))),
                             SipLastBlock(in, Len(in), SipEnd(Len(in)))))

(***************************************************************************)
(* UUID: [16]byte.  Key: [K0, K1].                                         *)
(***************************************************************************)
ZeroUUID == <<0, 0, 0, 0, 0, 0, 0, 0, 0, 0, 0, 0, 0, 0, 0, 0>>

\* byte(v): the low 8 bits of a uint64.
Byte(v) == v[1]

\* Mutant of wr48be: the bytes written least significant first.
wr48le(v48) ==
    <<Byte(Shr64(v48, 0)), Byte(Shr64(v48, 8)), Byte(Shr64(v48, 16)),
      Byte(Shr64(v48, 24)), Byte(Shr64(v48, 32)), Byte(Shr64(v48, 40))>>

\* wr48be: the six bytes written to dst[0..5].
wr48be(v48) ==
    <<Byte(Shr64(v48, 40)), Byte(Shr64(v48, 32)), Byte(Shr64(v48, 24)),
      Byte(Shr64(v48, 16)), Byte(Shr64(v48, 8)), Byte(Shr64(v48, 0))>>

\* Mutant of rd48be: the six bytes read least significant first.
rd48le(src) == <<src[1], src[2], src[3], src[4], src[5], src[6], 0, 0>>

\* rd48be: the 48-bit big-endian value of src[0..5].
rd48be(src) ==
    Or64(Or64(Or64(Shl64(ByteAt(src[1], 0), 40), Shl64(ByteAt(src[2], 0), 32)),
              Or64(Shl64(ByteAt(src[3], 0), 24), Shl64(ByteAt(src[4], 0), 16))),
         Or64(Shl64(ByteAt(src[5], 0), 8), Shl64(ByteAt(src[6], 0), 0)))

\* u.Version(): int(u[6]>>4) & 0x0F
Version(u) == (u[7] \div 16) % 16

\* Mutant of SetVersion: u[6] |= byte((ver & 0x0F) << 4), the old version kept.
SetVersionNoClear(u, ver) == [u EXCEPT ![7] = Or8(u[7], ((ver % 16) * 16) % 256)]

\* Mutant of SetVersion: u[6] = byte((ver & 0x0F) << 4), the low nibble lost.
SetVersionClobber(u, ver) == [u EXCEPT ![7] = ((ver % 16) * 16) % 256]

\* u.SetVersion(ver): u[6] = (u[6] & 0x0F) | byte((ver & 0x0F) << 4)
SetVersion(u, ver) == [u EXCEPT ![7] = Or8(u[7] % 16, ((ver % 16) * 16) % 256)]

\* Mutant of SetVariantRFC4122: u[8] |= 0x80, the old variant bits not cleared.
SetVariantNoClear(u) == [u EXCEPT ![9] = Or8(u[9], 128)]

\* u.SetVariantRFC4122(): u[8] = (u[8] & 0x3F) | 0x80
SetVariantRFC4122(u) == [u EXCEPT ![9] = Or8(u[9] % 64, 128)]

\* Mutant of buildSipInputFromV7: msg[2] = u[8], the variant bits not masked off.
buildSipInputWithVariant(u) ==
    <<u[7] % 16, u[8], u[9], u[10], u[11], u[12], u[13], u[14], u[15], u[16]>>

\* Mutant of buildSipInputFromV7: msg[0] = u[6], the version nibble not masked off.
buildSipInputWithVersion(u) ==
    <<u[7], u[8], u[9] % 64, u[10], u[11], u[12], u[13], u[14], u[15], u[16]>>

\* The 10-byte SipHash message of a UUID.
buildSipInputFromV7(u) ==
    <<u[7] % 16, u[8], u[9] % 64, u[10], u[11], u[12], u[13], u[14], u[15], u[16]>>

\* Mutant of EncodeWithHash: the mask written instead of timestamp ^ mask.
EncodeWritesMask(v7, h) ==
    IF h = Panic THEN Panic
    ELSE SetVariantRFC4122(SetVersion(wr48be(Low48(h)) \o SubSeq(v7, 7, 16), 4))

\* Encode, steps 2 and 3, given the PRF output h of step 1:
\* mask48 := h & 0x0000FFFFFFFFFFFF; encTS := rd48be(v7[0:6]) ^ mask48;
\* out := v7; wr48be(out[0:6], encTS); out.setVersion(4); out.setVariantRFC4122()
EncodeWithHash(v7, h) ==
    IF h = Panic THEN Panic
    ELSE SetVariantRFC4122(
             SetVersion(wr48be(Xor64(rd48be(SubSeq(v7, 1, 6)), Low48(h)))
                            \o SubSeq(v7, 7, 16),
                        4))

\* Encode: UUIDv7 -> UUIDv4 facade.
Encode(v7, key) ==
    EncodeWithHash(v7, siphash24(buildSipInputFromV7(v7), key.K0, key.K1))

\* Mutant of DecodeWithHash: the call of setVariantRFC4122 missing.
DecodeNoVariant(v4facade, h) ==
    IF h = Panic THEN Panic
    ELSE SetVersion(wr48be(Xor64(rd48be(SubSeq(v4facade, 1, 6)), Low48(h)))
                        \o SubSeq(v4facade, 7, 16),
                    7)

\* Decode, steps 2 and 3, given the PRF output h of step 1:
\* mask48 := h & 0x0000FFFFFFFFFFFF; ts48 := rd48be(v4facade[0:6]) ^ mask48;
\* out := v4facade; wr48be(out[0:6], ts48); out.setVersion(7); out.setVariantRFC4122()
DecodeWithHash(v4facade, h) ==
    IF h = Panic THEN Panic
    ELSE SetVariantRFC4122(
             SetVersion(wr48be(Xor64(rd48be(SubSeq(v4facade, 1, 6)), Low48(h)))
                            \o SubSeq(v4facade, 7, 16),
                        7))

\* Decode: UUIDv4 facade -> UUIDv7.
Decode(v4facade, key) ==
    DecodeWithHash(v4facade,
                   siphash24(buildSipInputFromV7(v4facade), key.K0, key.K1))

(***************************************************************************)
(* Text form and byte slices.  A string is a sequence of character codes   *)
(* (Go indexes a string by byte); an error is the name of the package's    *)
(* error value, NoErr for nil.  A call returning (UUID, error) or changing *)
(* its receiver and returning an error yields [u |-> ..., err |-> ...].    *)
(***************************************************************************)
NoErr == "nil"
ErrInvalidLength == "ErrInvalidLength"
ErrInvalidFormat == "ErrInvalidFormat"
ErrInvalidHex == "ErrInvalidHex"
ErrInvalidByteSlice == "ErrInvalidByteSlice"

\* Character codes: '-', '0', '9', 'a', 'f', 'A', 'F'.
ChDash == 45
Ch0 == 48
Ch9 == 57
ChLa == 97
ChLf == 102
ChUa == 65
ChUf == 70

\* Mutant of hexval: the case 'A' <= c <= 'F' missing.
hexvalLowerOnly(c) ==
    IF Ch0 <= c /\ c <= Ch9 THEN c - Ch0
    ELSE IF ChLa <= c /\ c <= ChLf THEN c - ChLa + 10
    ELSE -1

\* hexval(c): the value of a hex character, -1 for any other character.
hexval(c) ==
    IF Ch0 <= c /\ c <= Ch9 THEN c - Ch0
    ELSE IF ChLa <= c /\ c <= ChLf THEN c - ChLa + 10
    ELSE IF ChUa <= c /\ c <= ChUf THEN c - ChUa + 10
    ELSE -1

\* pos of Parse: the offset in the string of the first digit of byte i.
ParsePos(i) ==
    IF i < 4 THEN i * 2
    ELSE IF i < 6 THEN i * 2 + 1
    ELSE IF i < 8 THEN i * 2 + 2
    ELSE IF i < 10 THEN i * 2 + 3
    ELSE i * 2 + 4

\* The loop of Parse from byte i on, out holding the bytes parsed so far.
RECURSIVE ParseLoop(_, _, _)
ParseLoop(s, i, out) ==
    IF i = 16 THEN [u |-> out, err |-> NoErr]
    ELSE IF hexval(s[ParsePos(i) + 1]) < 0 \/ hexval(s[ParsePos(i) + 2]) < 0
         THEN [u |-> ZeroUUID, err |-> ErrInvalidHex]
         ELSE ParseLoop(s, i + 1,
                  [out EXCEPT ![i + 1] =
                      (hexval(s[ParsePos(i) + 1]) * 16 + hexval(s[ParsePos(i) + 2])) % 256])

\* Mutant of Parse: the digits are checked before the dash positions.
ParseHexFirst(s) ==
    IF Len(s) # 36 THEN [u |-> ZeroUUID, err |-> ErrInvalidLength]
    ELSE IF ParseLoop(s, 0, ZeroUUID).err # NoErr THEN ParseLoop(s, 0, ZeroUUID)
    ELSE IF s[9] # ChDash \/ s[14] # ChDash \/ s[19] # ChDash \/ s[24] # ChDash
         THEN [u |-> ZeroUUID, err |-> ErrInvalidFormat]
         ELSE ParseLoop(s, 0, ZeroUUID)

\* Parse(s)
Parse(s) ==
    IF Len(s) # 36 THEN [u |-> ZeroUUID, err |-> ErrInvalidLength]
    ELSE IF s[9] # ChDash \/ s[14] # ChDash \/ s[19] # ChDash \/ s[24] # ChDash
         THEN [u |-> ZeroUUID, err |-> ErrInvalidFormat]
         ELSE ParseLoop(s, 0, ZeroUUID)

\* Mutant of hexd: "0123456789ABCDEF".
hexdUpper == <<48, 49, 50, 51, 52, 53, 54, 55, 56, 57, 65, 66, 67, 68, 69, 70>>

\* hexd of String: "0123456789abcdef".
hexd == <<48, 49, 50, 51, 52, 53, 54, 55, 56, 57, 97, 98, 99, 100, 101, 102>>

\* dpos of String: the bytes a dash is written before.
dpos == <<4, 6, 8, 10>>

\* The loop of String from byte i on, buf holding buf[0..j-1].
RECURSIVE StringLoop(_, _, _)
StringLoop(u, i, buf) ==
    IF i = 16 THEN buf
    ELSE StringLoop(u, i + 1,
             (IF i = dpos[1] \/ i = dpos[2] \/ i = dpos[3] \/ i = dpos[4]
                 THEN Append(buf, ChDash) ELSE buf)
             \o <<hexd[((u[i + 1] \div 16) % 16) + 1], hexd[(u[i + 1] % 16) + 1]>>)

\* u.String()
String(u) == StringLoop(u, 0, <<>>)

\* u.MarshalText(): the bytes of u.String() and a nil error.
MarshalText(u) == [text |-> String(u), err |-> NoErr]

\* u.UnmarshalText(text): u is assigned only when Parse succeeds.
UnmarshalText(u, text) ==
    IF Parse(text).err # NoErr THEN [u |-> u, err |-> Parse(text).err]
    ELSE [u |-> Parse(text).u, err |-> NoErr]

\* copy(u[:], b): the first min(16, len(b)) bytes of u overwritten.
Copy(u, b) ==
    [i \in 1..16 |-> IF i <= Len(b) THEN b[i] ELSE u[i]]

\* Mutant of SetBytes: the length check missing.
SetBytesNoCheck(u, b) == [u |-> Copy(u, b), err |-> NoErr]

\* u.SetBytes(b)
SetBytes(u, b) ==
    IF Len(b) # 16 THEN [u |-> u, err |-> ErrInvalidByteSlice]
    ELSE [u |-> Copy(u, b), err |-> NoErr]

(***************************************************************************)
(* The identifiers, keys and messages the caller draws from.               *)
(***************************************************************************)
\* x * n for a small n, wrapping.
Mul64Small(x, n) ==
    LET s1 == x[1] * n
        s2 == x[2] * n + s1 \div 256
        s3 == x[3] * n + s2 \div 256
        s4 == x[4] * n + s3 \div 256
        s5 == x[5] * n + s4 \div 256
        s6 == x[6] * n + s5 \div 256
        s7 == x[7] * n + s6 \div 256
        s8 == x[8] * n + s7 \div 256
    IN  <<s1 % 256, s2 % 256, s3 % 256, s4 % 256,
          s5 % 256, s6 % 256, s7 % 256, s8 % 256>>

\* craftV7 of the tests: a version-7, variant-10 UUID from its three fields.
\* randA12 is a uint16 given as a number, tsMs48 and randB62 are uint64s.
craftV7(tsMs48, randA12, randB62) ==
    LET t == wr48be(Low48(tsMs48))
        b6 == Or8(SetVersion(ZeroUUID, 7)[7], (randA12 \div 256) % 16)
        b8 == Or8(SetVariantRFC4122(ZeroUUID)[9], Byte(Shr64(randB62, 56)) % 64)
    IN  <<t[1], t[2], t[3], t[4], t[5], t[6],
          b6, randA12 % 256, b8,
          Byte(Shr64(randB62, 48)), Byte(Shr64(randB62, 40)),
          Byte(Shr64(randB62, 32)), Byte(Shr64(randB62, 24)),
          Byte(Shr64(randB62, 16)), Byte(Shr64(randB62, 8)),
          Byte(Shr64(randB62, 0))>>

\* The loop bound of TestEncodeDecodeRoundtrip.
NumTestIds == 16

\* The identifier TestEncodeDecodeRoundtrip builds in iteration i.
TestId(i) ==
    LET ts == U64FromInt(1048576 * i + 123)
        ra == XorBits(2730, i * 7) % 4096
        rb == Xor64(U64(1, 35, 69, 103, 137, 171, 205, 239),
                    Mul64Small(U64(17, 17, 17, 17, 17, 17, 17, 17), i))
    IN  craftV7(ts, ra, <<rb[1], rb[2], rb[3], rb[4], rb[5], rb[6], rb[7], rb[8] % 64>>)

TestIds == {TestId(i) : i \in 0..(NumTestIds - 1)}

\* The key of Example and of the tests.
ExampleKey ==
    [K0 |-> U64(1, 35, 69, 103, 137, 171, 205, 239),        \* 0x0123456789abcdef
     K1 |-> U64(254, 220, 186, 152, 118, 84, 50, 16)]       \* 0xfedcba9876543210

\* The identifier of Example: 018f2d9f-9a2a-7def-8c3f-7b1a2c4d5e6f.
ExampleId == <<1, 143, 45, 159, 154, 42, 125, 239, 140, 63, 123, 26, 44, 77, 94, 111>>

\* The facade Example prints: 2463c780-7fca-4def-8c3f-7b1a2c4d5e6f.
ExampleFacade == <<36, 99, 199, 128, 127, 202, 77, 239, 140, 63, 123, 26, 44, 77, 94, 111>>

\* The wrong key of TestEncodeDecodeRoundtrip:
\* Key{K0: key.K0 ^ 0xdeadbeef, K1: key.K1 ^ 0x1337}
WrongKey(key) ==
    [K0 |-> Xor64(key.K0, U64(0, 0, 0, 0, 222, 173, 190, 239)),
     K1 |-> Xor64(key.K1, U64(0, 0, 0, 0, 0, 0, 19, 55))]

\* The key of the SipHash reference vectors.
RefKey ==
    [K0 |-> U64(7, 6, 5, 4, 3, 2, 1, 0),                    \* 0x0706050403020100
     K1 |-> U64(15, 14, 13, 12, 11, 10, 9, 8)]              \* 0x0f0e0d0c0b0a0908

\* The number of reference vectors TestSipHashSwitchAndVectorsSubset checks.
NumVectors == 13

\* Its table vbytes: the SipHash-2-4 reference outputs for the messages of
\* length 0..12 under RefKey, each as 8 bytes, least significant first.
RefVectors ==
    <<<<49, 14, 14, 221, 71, 219, 111, 114>>,       \* 31 0e 0e dd 47 db 6f 72
      <<253, 103, 220, 147, 197, 57, 248, 116>>,    \* fd 67 dc 93 c5 39 f8 74
      <<90, 79, 169, 217, 9, 128, 108, 13>>,        \* 5a 4f a9 d9 09 80 6c 0d
      <<45, 126, 251, 215, 150, 102, 103, 133>>,    \* 2d 7e fb d7 96 66 67 85
      <<183, 135, 113, 39, 224, 148, 39, 207>>,     \* b7 87 71 27 e0 94 27 cf
      <<141, 166, 153, 205, 100, 85, 118, 24>>,     \* 8d a6 99 cd 64 55 76 18
      <<206, 227, 254, 88, 110, 70, 201, 203>>,     \* ce e3 fe 58 6e 46 c9 cb
      <<55, 209, 1, 139, 245, 0, 2, 171>>,          \* 37 d1 01 8b f5 00 02 ab
      <<98, 36, 147, 154, 121, 245, 245, 147>>,     \* 62 24 93 9a 79 f5 f5 93
      <<176, 228, 169, 11, 223, 130, 0, 158>>,      \* b0 e4 a9 0b df 82 00 9e
      <<243, 185, 221, 148, 197, 187, 93, 122>>,    \* f3 b9 dd 94 c5 bb 5d 7a
      <<167, 173, 107, 34, 70, 47, 179, 244>>,      \* a7 ad 6b 22 46 2f b3 f4
      <<251, 229, 14, 134, 188, 143, 30, 117>>>>    \* fb e5 0e 86 bc 8f 1e 75

\* Bounds of the sampled inputs.
NumTs == 1
NumRand == 1
NumGenKeys == 1
MaxMsgLen == 15

\* Sampled 48-bit timestamps, random fields and keys.
GenTs(i) ==
    LET B(j) == (251 * i + 67 * i * j) % 256
    IN  <<B(6), B(5), B(4), B(3), B(2), B(1), 0, 0>>

GenRandA(i) == (1911 * i) % 4096

GenRandB(i) ==
    LET B(j) == (113 * i + 59 * i * j) % 256
    IN  <<B(1), B(2), B(3), B(4), B(5), B(6), B(7), B(8) % 64>>

GenKey(i) ==
    LET B(j) == (97 * i + 31 * j) % 256
    IN  [K0 |-> <<B(1), B(2), B(3), B(4), B(5), B(6), B(7), B(8)>>,
         K1 |-> <<B(9), B(10), B(11), B(12), B(13), B(14), B(15), B(16)>>]

\* A UUID with its version nibble and variant bits overwritten: any tagging.
Retag(u, ver, var) ==
    [u EXCEPT ![7] = 16 * ver + (u[7] % 16), ![9] = 64 * var + (u[9] % 64)]

Versions == {0, 4, 7, 15}
Variants == 0..3

GenIds ==
    {Retag(craftV7(GenTs(t), GenRandA(r), GenRandB(r)), ver, var) :
        t \in 0..NumTs, r \in 0..NumRand, ver \in Versions, var \in Variants}

Inputs == GenIds \cup TestIds \cup {ExampleId, ExampleFacade}

\* The identifiers encoded two at a time: every sampled timestamp and random
\* field, as a v7 identifier, as a v4-tagged one and with variant bits 11.
PairTags == {<<7, 2>>, <<4, 2>>, <<0, 3>>}

PairIds ==
    {Retag(craftV7(GenTs(t), GenRandA(r), GenRandB(r)), tag[1], tag[2]) :
        t \in 0..NumTs, r \in 0..NumRand, tag \in PairTags}

Keys == {ExampleKey, RefKey} \cup {GenKey(i) : i \in 1..NumGenKeys}

\* msg[:length] of the vector test: the bytes 0, 1, ..., length-1.
CountMsg(length) == [i \in 1..length |-> i - 1]

Msgs == {CountMsg(n) : n \in 0..MaxMsgLen}

\* The strings of the tests and of Example.
\* "018f2d9f-9a2a-7def-8c3f-7b1a2c4d5e6f"
ExampleText ==
    <<48, 49, 56, 102, 50, 100, 57, 102, 45, 57, 97, 50,
      97, 45, 55, 100, 101, 102, 45, 56, 99, 51, 102, 45,
      55, 98, 49, 97, 50, 99, 52, 100, 53, 101, 54, 102>>

\* "00000000-0000-7000-8000-000000000000"
RoundtripText ==
    <<48, 48, 48, 48, 48, 48, 48, 48, 45, 48, 48, 48,
      48, 45, 55, 48, 48, 48, 45, 56, 48, 48, 48, 45,
      48, 48, 48, 48, 48, 48, 48, 48, 48, 48, 48, 48>>

\* "zzzzzzzz-zzzz-zzzz-zzzz-zzzzzzzzzzzz"
BadText ==
    <<122, 122, 122, 122, 122, 122, 122, 122, 45, 122, 122, 122,
      122, 45, 122, 122, 122, 122, 45, 122, 122, 122, 122, 45,
      122, 122, 122, 122, 122, 122, 122, 122, 122, 122, 122, 122>>

\* "too-short"
ShortText == <<116, 111, 111, 45, 115, 104, 111, 114, 116>>

\* "01234567-1234-1234-1234-1234567890zz"
BadHexText ==
    <<48, 49, 50, 51, 52, 53, 54, 55, 45, 49, 50, 51,
      52, 45, 49, 50, 51, 52, 45, 49, 50, 51, 52, 45,
      49, 50, 51, 52, 53, 54, 55, 56, 57, 48, 122, 122>>

\* "01234567_1234_1234_1234_123456789012"
BadFormatText ==
    <<48, 49, 50, 51, 52, 53, 54, 55, 95, 49, 50, 51,
      52, 95, 49, 50, 51, 52, 95, 49, 50, 51, 52, 95,
      49, 50, 51, 52, 53, 54, 55, 56, 57, 48, 49, 50>>

TestTexts ==
    {ExampleText, RoundtripText, BadText, ShortText, BadHexText, BadFormatText}

\* A string with the letters a-f in upper case, and with them in lower case.
Upper(t) == [i \in 1..Len(t) |-> IF t[i] \in 97..102 THEN t[i] - 32 ELSE t[i]]
Lower(t) == [i \in 1..Len(t) |-> IF t[i] \in 65..70 THEN t[i] + 32 ELSE t[i]]

\* t with the character at offset p replaced by c.
Replace(t, p, c) == [t EXCEPT ![p + 1] = c]

\* The characters at and next to the ends of the ranges hexval tests, the
\* dash, and the smallest and largest byte.
EdgeChars == {0, 45, 47, 48, 57, 58, 64, 65, 70, 71, 95, 96, 97, 102, 103, 255}

\* Bounds: strings of up to MaxTextLen characters and slices of up to
\* MaxSliceLen bytes are tried.
MaxTextLen == 37
MaxSliceLen == 17

\* The strings parsed: those of the tests; the Example string in lower and in
\* upper case with one character replaced, at every offset; with a wrong dash
\* and a wrong digit at once; cut or padded to every length.
Texts ==
    TestTexts
    \cup {Upper(ExampleText), Upper(BadHexText), Upper(BadFormatText)}
    \cup {Replace(t, p, c) :
            t \in {ExampleText, Upper(ExampleText)}, p \in 0..35, c \in EdgeChars}
    \cup {Replace(Replace(ExampleText, d, c), p, c) :
            d \in {8, 13, 18, 23}, p \in {0, 9, 35}, c \in {71, 95}}
    \cup {SubSeq(ExampleText \o ExampleText, 1, n) : n \in 0..MaxTextLen}

\* The strings parsed by the caller that goes on to use the value.
\* "018f2d9f-9a2a-1def-8c3f-7b1a2c4d5e6f", a version-1 identifier.
V1Text == Replace(ExampleText, 14, 49)

ApiTexts == TestTexts \cup {Upper(ExampleText), V1Text}

\* The slice of length n holding 1, 2, ..., n (the test's []byte{1, 2, 3}).
CountSlice(n) == [i \in 1..n |-> i % 256]

\* The slices given to SetBytes: those of TestSetBytes, the empty one and the
\* lengths around 16.
Slices == {ExampleId} \cup {CountSlice(n) : n \in {0, 3} \cup 15..MaxSliceLen}

\* The arguments given to SetVersion: every version and values outside 0..15.
VerArgs == (0 - 1)..17 \cup {23, 256 + 7}

ApiKeys == {ExampleKey}

(***************************************************************************)
(* The caller.  It holds a key and, depending on mode, an identifier u     *)
(* ("uuid"), two identifiers u and u2 ("pair") or a message ("prf"), and   *)
(* calls the package: Encode(u, key), Encode(u2, key), Decode of the       *)
(* facade with the same and with another key, Decode(u, key),              *)
(* siphash24(msg, key.K0, key.K1).  Nil marks a result not computed yet.   *)
(***************************************************************************)
VARIABLES mode, u, u2, key, facade, facade2, back, bad, dec, msg, hash

\* again = Encode(facade, key) and reenc = Encode(dec, key): Encode applied to
\* the results of Encode and of Decode.
VARIABLES again, reenc

\* The calls in progress when several threads call the package (SpecConc):
\* frame[t] is the activation record of thread t's call, sipmsg[o] the
\* storage of the variable sipmsg owned by o.
VARIABLES frame, sipmsg

\* One UUID value used through the exported API (SpecApi, SpecText): obj is
\* the value, op the last call, arg its argument, err the error it returned,
\* prev the receiver before the call (Nil for Parse, which has none), calls
\* the number of calls made; s is the string given to Parse and str the
\* string String returned (SpecText).
VARIABLES obj, prev, op, arg, err, s, str, calls

callerVars ==
    <<mode, u, u2, key, facade, facade2, back, bad, dec, msg, hash, again, reenc>>
concVars == <<frame, sipmsg>>
apiVars == <<obj, prev, op, arg, err, s, str, calls>>
vars == <<callerVars, concVars, apiVars>>

Nil == <<>>

\* Bound of SpecConc: the number of threads is NumThreads.
NumThreads == 2

Threads == 1..NumThreads

IdleFrame ==
    [pc |-> "idle", op |-> "none", arg |-> Nil, key |-> Nil,
     v |-> Nil, mask48 |-> Nil, out |-> Nil, ret |-> Nil]

NoCalls ==
    /\ frame = [t \in Threads |-> IdleFrame]
    /\ sipmsg = [t \in Threads |-> Nil]

\* Bound of SpecApi: at most MaxCalls calls are made on the value.
MaxCalls == 3

NoApi ==
    /\ obj = Nil
    /\ prev = Nil
    /\ op = "none"
    /\ arg = Nil
    /\ err = NoErr
    /\ s = Nil
    /\ str = Nil
    /\ calls = 0

Init ==
    /\ key \in Keys
    /\ \/ mode = "uuid" /\ u \in Inputs /\ u2 = Nil /\ msg = Nil
       \/ mode = "pair" /\ u \in PairIds /\ u2 \in PairIds /\ msg = Nil
       \/ mode = "prf" /\ u = Nil /\ u2 = Nil /\ msg \in Msgs
    /\ facade = Nil
    /\ facade2 = Nil
    /\ back = Nil
    /\ bad = Nil
    /\ dec = Nil
    /\ hash = Nil
    /\ again = Nil
    /\ reenc = Nil
    /\ NoCalls
    /\ NoApi

\* facade := Encode(u, key)
CallEncode ==
    /\ mode \in {"uuid", "pair"}
    /\ facade = Nil
    /\ facade' = Encode(u, key)
    /\ UNCHANGED <<mode, u, u2, key, facade2, back, bad, dec, msg, hash>>
    /\ UNCHANGED <<again, reenc, concVars, apiVars>>

\* facade2 := Encode(u2, key)
CallEncodeSecond ==
    /\ mode = "pair"
    /\ facade2 = Nil
    /\ facade2' = Encode(u2, key)
    /\ UNCHANGED <<mode, u, u2, key, facade, back, bad, dec, msg, hash>>
    /\ UNCHANGED <<again, reenc, concVars, apiVars>>

\* back := Decode(facade, key)
CallDecode ==
    /\ mode = "uuid"
    /\ facade \notin {Nil, Panic}
    /\ back = Nil
    /\ back' = Decode(facade, key)
    /\ UNCHANGED <<mode, u, u2, key, facade, facade2, bad, dec, msg, hash>>
    /\ UNCHANGED <<again, reenc, concVars, apiVars>>

\* bad := Decode(facade, wrong)
CallDecodeWrongKey ==
    /\ mode = "uuid"
    /\ facade \notin {Nil, Panic}
    /\ bad = Nil
    /\ bad' = Decode(facade, WrongKey(key))
    /\ UNCHANGED <<mode, u, u2, key, facade, facade2, back, dec, msg, hash>>
    /\ UNCHANGED <<again, reenc, concVars, apiVars>>

\* dec := Decode(u, key), on an identifier that no Encode produced
CallDecodeDirect ==
    /\ mode = "uuid"
    /\ dec = Nil
    /\ dec' = Decode(u, key)
    /\ UNCHANGED <<mode, u, u2, key, facade, facade2, back, bad, msg, hash>>
    /\ UNCHANGED <<again, reenc, concVars, apiVars>>

\* hash := siphash24(msg, key.K0, key.K1)
CallSipHash ==
    /\ mode = "prf"
    /\ hash = Nil
    /\ hash' = siphash24(msg, key.K0, key.K1)
    /\ UNCHANGED <<mode, u, u2, key, facade, facade2, back, bad, dec, msg>>
    /\ UNCHANGED <<again, reenc, concVars, apiVars>>

\* again := Encode(facade, key), Encode applied to an encoded identifier
CallEncodeAgain ==
    /\ mode = "uuid"
    /\ facade \notin {Nil, Panic}
    /\ again = Nil
    /\ again' = Encode(facade, key)
    /\ UNCHANGED <<mode, u, u2, key, facade, facade2, back, bad, dec, msg, hash>>
    /\ UNCHANGED <<reenc, concVars, apiVars>>

\* reenc := Encode(dec, key), Encode applied to a decoded identifier
CallEncodeDecoded ==
    /\ mode = "uuid"
    /\ dec \notin {Nil, Panic}
    /\ reenc = Nil
    /\ reenc' = Encode(dec, key)
    /\ UNCHANGED <<mode, u, u2, key, facade, facade2, back, bad, dec, msg, hash>>
    /\ UNCHANGED <<again, concVars, apiVars>>

Next ==
    \/ CallEncode
    \/ CallEncodeSecond
    \/ CallDecode
    \/ CallDecodeWrongKey
    \/ CallDecodeDirect
    \/ CallSipHash
    \/ CallEncodeAgain
    \/ CallEncodeDecoded

Spec == Init /\ [][Next]_vars

(***************************************************************************)
(* Properties.                                                             *)
(***************************************************************************)
\* The fields of an identifier, read off its bytes.
TsField(x) == SubSeq(x, 1, 6)
VersionNibble(x) == x[7] \div 16
VariantBits(x) == x[9] \div 64
RandBits(x) ==
    <<x[7] % 16, x[8], x[9] % 64, x[10], x[11], x[12], x[13], x[14], x[15], x[16]>>

\* x with the version nibble forced to ver and the variant bits to binary 10.
Tagged(x, ver) ==
    <<x[1], x[2], x[3], x[4], x[5], x[6], 16 * ver + (x[7] % 16), x[8],
      128 + (x[9] % 64), x[10], x[11], x[12], x[13], x[14], x[15], x[16]>>

IsBytes(x, n) == Len(x) = n /\ \A i \in 1..n : x[i] \in 0..255

\* C1 (round trip): Decode(Encode(u, key), key) is u with the version nibble
\* forced to 7 and the variant bits to 10, so timestamp and random bits are
\* u's; it is u itself when u is already tagged version 7, variant 10.
C1_RoundTrip ==
    back # Nil =>
        /\ back = Tagged(u, 7)
        /\ TsField(back) = TsField(u)
        /\ RandBits(back) = RandBits(u)
        /\ (VersionNibble(u) = 7 /\ VariantBits(u) = 2 => back = u)

C1_Witness ==
    /\ back # Nil
    /\ VersionNibble(u) = 15
    /\ VariantBits(u) = 0
    /\ facade # u

\* C2 (format tagging): every Encode output has version nibble 4 and variant
\* bits 10, every Decode output version nibble 7 and variant bits 10,
\* whatever the tagging of the input.
C2_FormatTagging ==
    /\ \A f \in {facade, facade2} \ {Nil} :
           VersionNibble(f) = 4 /\ (f[9] \div 64) * 64 = 128
    /\ \A d \in {back, bad, dec} \ {Nil} :
           VersionNibble(d) = 7 /\ (d[9] \div 64) * 64 = 128

C2_Witness ==
    /\ facade # Nil
    /\ dec # Nil
    /\ VersionNibble(u) = 0
    /\ VariantBits(u) = 3

\* C3 (field isolation): Encode and Decode leave the low nibble of byte 6,
\* byte 7, the low 6 bits of byte 8 and bytes 9-15 as they were, so the PRF
\* message of the output is the PRF message of the input.
C3_FieldIsolation ==
    /\ facade # Nil =>
           /\ RandBits(facade) = RandBits(u)
           /\ buildSipInputFromV7(facade) = buildSipInputFromV7(u)
    /\ dec # Nil =>
           /\ RandBits(dec) = RandBits(u)
           /\ buildSipInputFromV7(dec) = buildSipInputFromV7(u)
    /\ back # Nil => buildSipInputFromV7(back) = buildSipInputFromV7(facade)

C3_Witness ==
    /\ facade # Nil
    /\ dec # Nil
    /\ TsField(facade) # TsField(u)
    /\ VersionNibble(u) \notin {4, 7}
    /\ RandBits(u) # RandBits(ZeroUUID)

\* C4 (concrete scenario): with the key of Example, Encode of
\* 018f2d9f-9a2a-7def-8c3f-7b1a2c4d5e6f is 2463c780-7fca-4def-8c3f-7b1a2c4d5e6f
\* and Decode of that is the original.
C4_Example ==
    mode = "uuid" /\ u = ExampleId /\ key = ExampleKey =>
        /\ facade # Nil => facade = ExampleFacade
        /\ back # Nil => back = ExampleId

C4_Witness ==
    /\ u = ExampleId
    /\ key = ExampleKey
    /\ facade = ExampleFacade
    /\ back = ExampleId

\* C5 (PRF test vectors): under the reference key, siphash24 of the message
\* 0, 1, ..., L-1 is the published SipHash-2-4 output for each L in 0..12.
C5_Vectors ==
    mode = "prf" /\ key = RefKey /\ hash # Nil /\ Len(msg) < NumVectors =>
        /\ msg = CountMsg(Len(msg))
        /\ hash = RefVectors[Len(msg) + 1]

C5_Witness ==
    /\ mode = "prf"
    /\ key = RefKey
    /\ Len(msg) = NumVectors - 1
    /\ hash = RefVectors[NumVectors]

\* C6 (injectivity): under one key, identifiers that differ in the timestamp
\* field or in a random bit have different facades.
C6_Injective ==
    mode = "pair" /\ facade # Nil /\ facade2 # Nil =>
        (TsField(u) # TsField(u2) \/ RandBits(u) # RandBits(u2) => facade # facade2)

C6_Witness ==
    /\ mode = "pair"
    /\ facade # Nil
    /\ facade2 # Nil
    /\ RandBits(u) = RandBits(u2)
    /\ TsField(u) # TsField(u2)
    /\ facade # facade2

\* C7 (mask cancellation): under one key, for identifiers with the same random
\* bits, the XOR of the 48-bit fields of the two facades is the XOR of the two
\* timestamps, whatever their timestamps, versions and variants.
C7_MaskCancels ==
    mode = "pair" /\ facade # Nil /\ facade2 # Nil /\ RandBits(u) = RandBits(u2) =>
        \A i \in 1..6 : XorBits(facade[i], facade2[i]) = XorBits(u[i], u2[i])

C7_Witness ==
    /\ mode = "pair"
    /\ facade # Nil
    /\ facade2 # Nil
    /\ RandBits(u) = RandBits(u2)
    /\ TsField(u) # TsField(u2)
    /\ VersionNibble(u) # VersionNibble(u2)
    /\ VariantBits(u) # VariantBits(u2)
    /\ TsField(facade) # TsField(u)

\* C8 (key sensitivity): for each of the 16 identifiers of the round-trip
\* test under the key of the test, decoding the facade with the key
\* (K0 ^ 0xdeadbeef, K1 ^ 0x1337) does not give the identifier back.
C8_WrongKey ==
    mode = "uuid" /\ u \in TestIds /\ key = ExampleKey /\ bad # Nil => bad # u

C8_Witness ==
    /\ mode = "uuid"
    /\ u = TestId(NumTestIds - 1)
    /\ key = ExampleKey
    /\ bad # Nil
    /\ back = u

\* C9 (totality): siphash24 returns a 64-bit value, with no index out of
\* range, for every message length; Encode and Decode return 16 bytes.
C9_Total ==
    /\ hash # Nil => hash # Panic /\ IsBytes(hash, 8)
    /\ \A r \in {facade, facade2, back, bad, dec} \ {Nil} :
           r # Panic /\ IsBytes(r, 16)
    /\ mode = "prf" => \A i \in SipReads(Len(msg)) : 0 <= i /\ i < Len(msg)

C9_Witness ==
    /\ mode = "prf"
    /\ hash # Nil
    /\ hash # Panic
    /\ Len(msg) = MaxMsgLen
    /\ Len(msg) % 8 = 7 \/ Len(msg) > 8

(***************************************************************************)
(* Several threads calling the package.  A call of Encode or Decode runs   *)
(* in steps: the argument is copied into the parameter v, the message is   *)
(* built into sipmsg, the PRF is applied to it, the masked copy out is     *)
(* written, out is tagged and returned.  A step of one thread may fall     *)
(* between any two steps of another.                                       *)
(***************************************************************************)
\* Mutant of SipMsgOwner: sipmsg a package-level buffer, one for all calls.
SipMsgShared(t) == 1

\* var sipmsg [10]byte is a local variable of Encode and of Decode: each
\* call has its own.
SipMsgOwner(t) == t

\* The calls a thread may make: either operation, on either form of an
\* identifier, under either of two keys, and the PRF alone.
ConcCalls ==
    {[op |-> "Encode", arg |-> ExampleId, key |-> ExampleKey],
     [op |-> "Decode", arg |-> ExampleFacade, key |-> ExampleKey],
     [op |-> "Encode", arg |-> TestId(1), key |-> RefKey],
     [op |-> "Decode", arg |-> ExampleId, key |-> RefKey],
     [op |-> "siphash24", arg |-> CountMsg(10), key |-> RefKey]}

InitConc ==
    /\ mode = "conc"
    /\ u = Nil
    /\ u2 = Nil
    /\ key = Nil
    /\ msg = Nil
    /\ facade = Nil
    /\ facade2 = Nil
    /\ back = Nil
    /\ bad = Nil
    /\ dec = Nil
    /\ hash = Nil
    /\ again = Nil
    /\ reenc = Nil
    /\ NoCalls
    /\ NoApi

\* Thread t calls op(arg, key): the UUID and the Key are passed by value.
ConcCall(t) ==
    /\ frame[t].pc = "idle"
    /\ \E c \in ConcCalls :
           frame' = [frame EXCEPT ![t] =
                        [IdleFrame EXCEPT !.pc = "called", !.op = c.op,
                                          !.arg = c.arg, !.key = c.key, !.v = c.arg]]
    /\ UNCHANGED <<sipmsg, callerVars, apiVars>>

\* buildSipInputFromV7(&v, &sipmsg)
ConcBuild(t) ==
    /\ frame[t].pc = "called"
    /\ frame[t].op \in {"Encode", "Decode"}
    /\ sipmsg' = [sipmsg EXCEPT ![SipMsgOwner(t)] = buildSipInputFromV7(frame[t].v)]
    /\ frame' = [frame EXCEPT ![t].pc = "built"]
    /\ UNCHANGED <<callerVars, apiVars>>

\* mask48 := siphash24(sipmsg[:], key.K0, key.K1) & 0x0000FFFFFFFFFFFF
ConcHash(t) ==
    /\ frame[t].pc = "built"
    /\ frame' = [frame EXCEPT ![t].pc = "hashed",
                              ![t].mask48 = Low48(siphash24(sipmsg[SipMsgOwner(t)],
                                                            frame[t].key.K0,
                                                            frame[t].key.K1))]
    /\ UNCHANGED <<sipmsg, callerVars, apiVars>>

\* out := v; wr48be(out[0:6], rd48be(v[0:6]) ^ mask48)
ConcMask(t) ==
    /\ frame[t].pc = "hashed"
    /\ frame' = [frame EXCEPT ![t].pc = "masked",
                              ![t].out = wr48be(Xor64(rd48be(SubSeq(frame[t].v, 1, 6)),
                                                      frame[t].mask48))
                                             \o SubSeq(frame[t].v, 7, 16)]
    /\ UNCHANGED <<sipmsg, callerVars, apiVars>>

\* out.setVersion(4 or 7); out.setVariantRFC4122(); return out
ConcTag(t) ==
    /\ frame[t].pc = "masked"
    /\ frame' = [frame EXCEPT ![t].pc = "done",
                              ![t].ret = SetVariantRFC4122(
                                             SetVersion(frame[t].out,
                                                        IF frame[t].op = "Encode"
                                                        THEN 4 ELSE 7))]
    /\ UNCHANGED <<sipmsg, callerVars, apiVars>>

\* A call of siphash24 alone: its state is four local words.
ConcSipHash(t) ==
    /\ frame[t].pc = "called"
    /\ frame[t].op = "siphash24"
    /\ frame' = [frame EXCEPT ![t].pc = "done",
                              ![t].ret = siphash24(frame[t].v, frame[t].key.K0,
                                                   frame[t].key.K1)]
    /\ UNCHANGED <<sipmsg, callerVars, apiVars>>

\* The caller takes the result; the activation record is gone.
ConcReturn(t) ==
    /\ frame[t].pc = "done"
    /\ frame' = [frame EXCEPT ![t] = IdleFrame]
    /\ UNCHANGED <<sipmsg, callerVars, apiVars>>

NextConc ==
    \E t \in Threads :
        \/ ConcCall(t)
        \/ ConcBuild(t)
        \/ ConcHash(t)
        \/ ConcMask(t)
        \/ ConcTag(t)
        \/ ConcSipHash(t)
        \/ ConcReturn(t)

SpecConc == InitConc /\ [][NextConc]_vars

\* What the call of a frame returns when nothing else runs.
Isolated(f) ==
    CASE f.op = "Encode" -> Encode(f.arg, f.key)
      [] f.op = "Decode" -> Decode(f.arg, f.key)
      [] f.op = "siphash24" -> siphash24(f.arg, f.key.K0, f.key.K1)

\* C10 (history independence): whatever calls ran before or run at the same
\* time, a finished call returns what it returns in isolation, a function of
\* its own arguments, and its arguments are the ones it was called with.
C10_HistoryIndependent ==
    \A t \in Threads :
        frame[t].pc = "done" =>
            /\ frame[t].ret = Isolated(frame[t])
            /\ \E c \in ConcCalls :
                   c.op = frame[t].op /\ c.arg = frame[t].arg /\ c.key = frame[t].key

C10_Witness ==
    /\ frame[1].pc = "done"
    /\ frame[1].op = "Encode"
    /\ frame[2].pc = "built"
    /\ frame[2].op = "Decode"
    /\ frame[2].key # frame[1].key
    /\ sipmsg[2] # sipmsg[1]

(***************************************************************************)
(* One UUID value used through the exported API: declared (var u UUID, all *)
(* zeros), then parsed, printed, set from a slice, retagged and            *)
(* transformed, at most MaxCalls calls in any order.                       *)
(***************************************************************************)
InitApi ==
    /\ mode = "api"
    /\ u = Nil
    /\ u2 = Nil
    /\ key = Nil
    /\ msg = Nil
    /\ facade = Nil
    /\ facade2 = Nil
    /\ back = Nil
    /\ bad = Nil
    /\ dec = Nil
    /\ hash = Nil
    /\ again = Nil
    /\ reenc = Nil
    /\ NoCalls
    /\ obj = ZeroUUID
    /\ prev = Nil
    /\ op = "none"
    /\ arg = Nil
    /\ err = NoErr
    /\ s = Nil
    /\ str = Nil
    /\ calls = 0

\* obj, err = Parse(t)
ApiParse ==
    /\ calls < MaxCalls
    /\ \E t \in ApiTexts :
          /\ obj' = Parse(t).u
          /\ err' = Parse(t).err
          /\ arg' = t
    /\ op' = "Parse"
    /\ prev' = Nil
    /\ s' = Nil
    /\ str' = Nil
    /\ calls' = calls + 1
    /\ UNCHANGED <<callerVars, concVars>>

\* err = obj.UnmarshalText(t)
ApiUnmarshalText ==
    /\ calls < MaxCalls
    /\ \E t \in ApiTexts :
          /\ obj' = UnmarshalText(obj, t).u
          /\ err' = UnmarshalText(obj, t).err
          /\ arg' = t
    /\ op' = "UnmarshalText"
    /\ prev' = obj
    /\ s' = Nil
    /\ str' = Nil
    /\ calls' = calls + 1
    /\ UNCHANGED <<callerVars, concVars>>

\* err = obj.SetBytes(b)
ApiSetBytes ==
    /\ calls < MaxCalls
    /\ \E b \in Slices :
          /\ obj' = SetBytes(obj, b).u
          /\ err' = SetBytes(obj, b).err
          /\ arg' = b
    /\ op' = "SetBytes"
    /\ prev' = obj
    /\ s' = Nil
    /\ str' = Nil
    /\ calls' = calls + 1
    /\ UNCHANGED <<callerVars, concVars>>

\* obj.SetVersion(ver)
ApiSetVersion ==
    /\ calls < MaxCalls
    /\ \E ver \in VerArgs :
          /\ obj' = SetVersion(obj, ver)
          /\ arg' = <<ver>>
    /\ op' = "SetVersion"
    /\ prev' = obj
    /\ err' = NoErr
    /\ s' = Nil
    /\ str' = Nil
    /\ calls' = calls + 1
    /\ UNCHANGED <<callerVars, concVars>>

\* obj.SetVariantRFC4122()
ApiSetVariantRFC4122 ==
    /\ calls < MaxCalls
    /\ obj' = SetVariantRFC4122(obj)
    /\ op' = "SetVariantRFC4122"
    /\ prev' = obj
    /\ arg' = Nil
    /\ err' = NoErr
    /\ s' = Nil
    /\ str' = Nil
    /\ calls' = calls + 1
    /\ UNCHANGED <<callerVars, concVars>>

\* obj = Encode(obj, k)
ApiEncode ==
    /\ calls < MaxCalls
    /\ \E k \in ApiKeys : obj' = Encode(obj, k)
    /\ op' = "Encode"
    /\ prev' = obj
    /\ arg' = Nil
    /\ err' = NoErr
    /\ s' = Nil
    /\ str' = Nil
    /\ calls' = calls + 1
    /\ UNCHANGED <<callerVars, concVars>>

\* obj = Decode(obj, k)
ApiDecode ==
    /\ calls < MaxCalls
    /\ \E k \in ApiKeys : obj' = Decode(obj, k)
    /\ op' = "Decode"
    /\ prev' = obj
    /\ arg' = Nil
    /\ err' = NoErr
    /\ s' = Nil
    /\ str' = Nil
    /\ calls' = calls + 1
    /\ UNCHANGED <<callerVars, concVars>>

NextApi ==
    \/ ApiParse
    \/ ApiUnmarshalText
    \/ ApiSetBytes
    \/ ApiSetVersion
    \/ ApiSetVariantRFC4122
    \/ ApiEncode
    \/ ApiDecode

SpecApi == InitApi /\ [][NextApi]_vars

(***************************************************************************)
(* The text codec.  The caller holds either a string s, which it parses,   *)
(* or a UUID; it prints the UUID it holds with String and parses the       *)
(* result again (TestUUIDParseFormatRoundtrip).                            *)
(***************************************************************************)
InitText ==
    /\ mode = "text"
    /\ u = Nil
    /\ u2 = Nil
    /\ key = Nil
    /\ msg = Nil
    /\ facade = Nil
    /\ facade2 = Nil
    /\ back = Nil
    /\ bad = Nil
    /\ dec = Nil
    /\ hash = Nil
    /\ again = Nil
    /\ reenc = Nil
    /\ NoCalls
    /\ \/ s \in Texts /\ obj = Nil /\ op = "none"
       \/ s = Nil /\ obj \in Inputs /\ op = "given"
    /\ prev = Nil
    /\ arg = Nil
    /\ err = NoErr
    /\ str = Nil
    /\ calls = 0

\* obj, err := Parse(s)
TextParse ==
    /\ op = "none"
    /\ obj' = Parse(s).u
    /\ err' = Parse(s).err
    /\ op' = "Parse"
    /\ calls' = calls + 1
    /\ UNCHANGED <<prev, arg, s, str>>
    /\ UNCHANGED <<callerVars, concVars>>

\* str := obj.String()
TextString ==
    /\ op \in {"given", "Parse"}
    /\ str' = String(obj)
    /\ prev' = obj
    /\ op' = "String"
    /\ calls' = calls + 1
    /\ UNCHANGED <<obj, arg, err, s>>
    /\ UNCHANGED <<callerVars, concVars>>

\* obj, err := Parse(str)
TextParseString ==
    /\ op = "String"
    /\ obj' = Parse(str).u
    /\ err' = Parse(str).err
    /\ op' = "ParseString"
    /\ calls' = calls + 1
    /\ UNCHANGED <<prev, arg, s, str>>
    /\ UNCHANGED <<callerVars, concVars>>

NextText ==
    \/ TextParse
    \/ TextString
    \/ TextParseString

SpecText == InitText /\ [][NextText]_vars

(***************************************************************************)
(* Properties of the transform against its reference formula.              *)
(***************************************************************************)
\* The 48-bit big-endian encoding of T xor M, M the low 48 bits of the PRF
\* output m and T the big-endian value of bytes 0..5 of x: byte 0 is the most
\* significant, so it pairs with bits 40..47 of m.
RefTs(x, m) ==
    <<Xor8(x[1], m[6]), Xor8(x[2], m[5]), Xor8(x[3], m[4]),
      Xor8(x[4], m[3]), Xor8(x[5], m[2]), Xor8(x[6], m[1])>>

\* The PRF output with its top 16 bits replaced by the byte hi twice.
WithTop(m, hi) == <<m[1], m[2], m[3], m[4], m[5], m[6], hi, hi>>

\* The reference formula for an identifier x, its facade f (Nil when Encode
\* was not called), its decoding d (Nil likewise) and the PRF output m.
MatchesReference(x, f, d, m) ==
    /\ f # Nil =>
          /\ TsField(f) = RefTs(x, m)
          /\ \A hi \in {0, 255} : EncodeWithHash(x, WithTop(m, hi)) = f
    /\ d # Nil => TsField(d) = RefTs(x, m)

\* C14 (reference formula): bytes 0-5 of Encode(x, k) and of Decode(x, k) are
\* the big-endian encoding of T xor M, with M the low 48 bits of siphash24
\* over [x6 & 0x0F, x7, x8 & 0x3F, x9..x15] under (k.K0, k.K1), and the top 16
\* bits of the PRF output do not influence the result.
C14_ReferenceFormula ==
    (mode \in {"uuid", "pair"} /\ (facade # Nil \/ dec # Nil)) =>
        MatchesReference(u, facade, dec, siphash24(RandBits(u), key.K0, key.K1))

C14_Witness ==
    /\ mode = "uuid"
    /\ u = ExampleId
    /\ key = ExampleKey
    /\ facade = ExampleFacade
    /\ dec # Nil
    /\ TsField(facade) # TsField(u)

\* The ASCII strings of the initialisation constants, character by character.
Somepseu == <<115, 111, 109, 101, 112, 115, 101, 117>>
Dorandom == <<100, 111, 114, 97, 110, 100, 111, 109>>
Lygenera == <<108, 121, 103, 101, 110, 101, 114, 97>>
Tedbytes == <<116, 101, 100, 98, 121, 116, 101, 115>>

\* An 8-character string as a 64-bit word: first character in the least
\* significant byte (little-endian), or in the most significant (big-endian).
LEWord(t) == <<t[1], t[2], t[3], t[4], t[5], t[6], t[7], t[8]>>
BEWord(t) == <<t[8], t[7], t[6], t[5], t[4], t[3], t[2], t[1]>>

\* C15 as stated: the state words are the key words XORed with the four
\* strings read as little-endian words, v0 and v2 with k0, v1 and v3 with k1.
C15_LittleEndianConstants ==
    (mode = "prf" /\ hash # Nil) =>
        SipInit(key.K0, key.K1) =
            <<Xor64(key.K0, LEWord(Somepseu)), Xor64(key.K1, LEWord(Dorandom)),
              Xor64(key.K0, LEWord(Lygenera)), Xor64(key.K1, LEWord(Tedbytes))>>

\* C15 (amended): the state words are the key words XORed with the four
\* strings read as big-endian words (first character in the most significant
\* byte), v0 and v2 with k0, v1 and v3 with k1.
C15_BigEndianConstants ==
    (mode = "prf" /\ hash # Nil) =>
        SipInit(key.K0, key.K1) =
            <<Xor64(key.K0, BEWord(Somepseu)), Xor64(key.K1, BEWord(Dorandom)),
              Xor64(key.K0, BEWord(Lygenera)), Xor64(key.K1, BEWord(Tedbytes))>>

C15_Witness ==
    /\ mode = "prf"
    /\ key = RefKey
    /\ Len(msg) = 8
    /\ hash = RefVectors[9]

\* C18 (one transform up to the version tag): Encode(x, k) and Decode(x, k)
\* agree in every bit except the version nibble, 4 against 7; Encode of an
\* encoded identifier carries the original timestamp, version 4 and variant
\* 10; Encode(Decode(f, k), k) = f for every f of version 4 and variant 10.
C18_SameTransform ==
    /\ (mode = "uuid" /\ facade # Nil /\ dec # Nil) =>
          /\ \A i \in (1..16) \ {7} : facade[i] = dec[i]
          /\ facade[7] % 16 = dec[7] % 16
          /\ VersionNibble(facade) = 4
          /\ VersionNibble(dec) = 7
    /\ again # Nil =>
          /\ TsField(again) = TsField(u)
          /\ again = Tagged(u, 4)
    /\ (reenc # Nil /\ VersionNibble(u) = 4 /\ VariantBits(u) = 2) => reenc = u

C18_Witness ==
    /\ mode = "uuid"
    /\ u = ExampleFacade
    /\ facade # Nil
    /\ dec = ExampleId
    /\ again # Nil
    /\ TsField(facade) # TsField(u)
    /\ reenc = u

(***************************************************************************)
(* Properties of the text codec and of the methods of UUID.                *)
(***************************************************************************)
\* The offsets of the dashes and of the digits in the canonical form.
DashOffsets == {8, 13, 18, 23}
DigitOffsets == (0..35) \ DashOffsets

IsLowerHex(c) == c \in 48..57 \cup 97..102
IsHex(c) == c \in 48..57 \cup 97..102 \cup 65..70

BadLength(t) == Len(t) # 36
BadDash(t) == \E p \in DashOffsets : t[p + 1] # 45
BadDigit(t) == \E p \in DigitOffsets : ~IsHex(t[p + 1])
HasUpperHex(t) == \E p \in DigitOffsets : t[p + 1] \in 65..70

\* C11 (text round trip): String(u) has 36 characters, '-' at offsets 8, 13,
\* 18, 23 and lowercase hex digits elsewhere, and Parse(String(u)) returns u
\* and a nil error.
C11_TextRoundTrip ==
    /\ str # Nil =>
          /\ Len(str) = 36
          /\ \A p \in DashOffsets : str[p + 1] = 45
          /\ \A p \in DigitOffsets : IsLowerHex(str[p + 1])
    /\ op = "ParseString" => (obj = prev /\ err = NoErr)

C11_Witness ==
    /\ op = "ParseString"
    /\ s = Nil
    /\ prev = ExampleFacade
    /\ obj = ExampleFacade
    /\ str # ExampleText
    /\ HasUpperHex(Upper(str))

\* C12 (Parse errors): ErrInvalidLength for every length other than 36;
\* ErrInvalidFormat when a dash offset holds another character, whatever the
\* digits; ErrInvalidHex when the dashes are right and a digit offset holds a
\* non-hex character; the zero UUID with every error; nil only otherwise.
C12_ParseErrors ==
    op = "Parse" =>
        /\ BadLength(s) => err = ErrInvalidLength
        /\ (~BadLength(s) /\ BadDash(s)) => err = ErrInvalidFormat
        /\ (~BadLength(s) /\ ~BadDash(s) /\ BadDigit(s)) => err = ErrInvalidHex
        /\ err # NoErr => obj = ZeroUUID
        /\ err = NoErr <=> (~BadLength(s) /\ ~BadDash(s) /\ ~BadDigit(s))

C12_Witness ==
    /\ op = "Parse"
    /\ Len(s) = 36
    /\ BadDash(s)
    /\ BadDigit(s)
    /\ err = ErrInvalidFormat
    /\ obj = ZeroUUID

\* C19 (case): for every string s that Parse accepts, String(Parse(s)) is s
\* with A-F replaced by a-f, so it equals s exactly when s has no uppercase
\* hex digit; well-formed strings with uppercase hex digits are accepted.
C19_CaseInsensitive ==
    /\ (op = "String" /\ s # Nil /\ err = NoErr) =>
          /\ str = Lower(s)
          /\ str = s <=> ~HasUpperHex(s)
    /\ (op = "Parse" /\ ~BadLength(s)) =>
          ((~BadDash(s) /\ ~BadDigit(s) /\ HasUpperHex(s)) => err = NoErr)

C19_Witness ==
    /\ op = "String"
    /\ s = Upper(ExampleText)
    /\ err = NoErr
    /\ str = ExampleText
    /\ str # s

\* C13 as stated: every value obtained from a successful call of Parse,
\* SetBytes, SetVersion, Encode, Decode or UnmarshalText has version 4 or 7.
C13_VersionIs4Or7 ==
    (op \in {"Parse", "SetBytes", "SetVersion", "Encode", "Decode", "UnmarshalText"}
        /\ err = NoErr) => Version(obj) \in {4, 7}

C17_SetBytes ==
    op = "SetBytes" =>
        /\ Len(arg) = 16 => (obj = arg /\ err = NoErr)
        /\ Len(arg) # 16 => (obj = prev /\ err = ErrInvalidByteSlice)

C17_Witness ==
    /\ op = "SetBytes"
    /\ Len(arg) = 3
    /\ prev = ExampleId
    /\ obj = ExampleId
    /\ err = ErrInvalidByteSlice

====
